---- MODULE Spec2Model ----
(***************************************************************************)
(* A model of scripts/prepare_data.py: the name normalizer, the tokenizer, *)
(* the description parser, the index builder (load_tierras_data), the      *)
(* department matching cascade (process_ign_departamentos), the classifier *)
(* (get_nivel), the aggregator (generate_stats) and the order in which     *)
(* main() processes and writes.                                            *)
(*                                                                         *)
(* Strings are TLA+ strings handled character by character.  Raw names are *)
(* written in NFKD-decomposed form: the character Combining stands for a   *)
(* non-ASCII code point (a combining accent) that                          *)
(* unicodedata.normalize('NFKD', ..).encode('ASCII', 'ignore') drops.      *)
(***************************************************************************)
EXTENDS Integers, Sequences, FiniteSets, TLC

(***************************************************************************)
(* Python values: None, str, int, float (a rational n/d), float('nan').    *)
(***************************************************************************)
None == [t |-> "none", s |-> "", n |-> 0, d |-> 1]

PyStr(x) == [t |-> "str", s |-> x, n |-> 0, d |-> 1]

PyInt(x) == [t |-> "int", s |-> "", n |-> x, d |-> 1]

PyFloat(x, y) == [t |-> "float", s |-> "", n |-> x, d |-> y]

NaN == [t |-> "nan", s |-> "", n |-> 0, d |-> 1]

IsNum(v) == v.t \in {"int", "float", "nan"}

\* Python truthiness: `if x`, `not x`, `x or y`.
Truthy(v) ==
  CASE v.t = "none" -> FALSE
    [] v.t = "str" -> v.s # ""
    [] v.t = "nan" -> TRUE
    [] OTHER -> v.n # 0

Or(a, b) == IF Truthy(a) THEN a ELSE b

(***************************************************************************)
(* Characters and strings.                                                 *)
(***************************************************************************)
Upper == "ABCDEFGHIJKLMNOPQRSTUVWXYZ"

Lower == "abcdefghijklmnopqrstuvwxyz"

Digits == "0123456789"

Combining == "^"

\* v evaluated once, then Body of its value
Let(v, Body(_)) == CHOOSE r \in {Body(x) : x \in {v}} : TRUE

Ch(s, i) == SubSeq(s, i, i)

CharsOf(s) == {Ch(s, i) : i \in 1..Len(s)}

UpperChars == CharsOf(Upper)

DigitChars == CharsOf(Digits)

WordChars == CharsOf(Lower) \cup CharsOf(Upper) \cup CharsOf(Digits) \cup {"_"}

IsSpace(c) == c \in {" ", "\t", "\n"}

IsDigit(c) == c \in DigitChars

\* \w of the re module on the ASCII strings the normalizer leaves.
IsWordChar(c) == c \in WordChars

LowerChar(c) ==
  IF c \in UpperChars
  THEN Ch(Lower, CHOOSE i \in 1..Len(Upper) : Ch(Upper, i) = c)
  ELSE c

StartsAt(s, i, p) == i + Len(p) - 1 <= Len(s) /\ SubSeq(s, i, i + Len(p) - 1) = p

StartsWith(s, p) == StartsAt(s, 1, p)

From(s, i) == SubSeq(s, i, Len(s))

\* kind "ascii": encode('ASCII', 'ignore'); "lower": str.lower();
\* "punct": re.sub(r'[.,]', ' ', ..); "nocomma": str.replace(',', '').
MapChar(c, kind) ==
  CASE kind = "ascii" -> IF c = Combining THEN "" ELSE c
    [] kind = "lower" -> LowerChar(c)
    [] kind = "punct" -> IF c \in {".", ","} THEN " " ELSE c
    [] OTHER -> IF c = "," THEN "" ELSE c

RECURSIVE MapFrom(_, _, _)
MapFrom(s, i, kind) ==
  IF i > Len(s) THEN "" ELSE MapChar(Ch(s, i), kind) \o MapFrom(s, i + 1, kind)

MapChars(s0, kind) == Let(s0, LAMBDA s : MapFrom(s, 1, kind))

RECURSIVE SkipSpaces(_, _)
\* the first index >= i of s that holds no white space (Len(s) + 1 when none)
SkipSpaces(s, i) == IF i <= Len(s) /\ IsSpace(Ch(s, i)) THEN SkipSpaces(s, i + 1) ELSE i

RECURSIVE SkipSpacesBack(_, _)
\* the last index <= i of s that holds no white space (0 when none)
SkipSpacesBack(s, i) == IF i >= 1 /\ IsSpace(Ch(s, i)) THEN SkipSpacesBack(s, i - 1) ELSE i

LStrip(s0) == Let(s0, LAMBDA s : From(s, SkipSpaces(s, 1)))

RStrip(s0) == Let(s0, LAMBDA s : SubSeq(s, 1, SkipSpacesBack(s, Len(s))))

\* str.strip()
Strip(s) == RStrip(LStrip(s))

RECURSIVE CollapseFrom(_, _)
CollapseFrom(s, i) ==
  IF i > Len(s) THEN ""
  ELSE IF IsSpace(Ch(s, i))
       THEN " " \o CollapseFrom(s, SkipSpaces(s, i))
       ELSE Ch(s, i) \o CollapseFrom(s, i + 1)

\* re.sub(r'\s+', ' ', s)
CollapseWs(s0) == Let(s0, LAMBDA s : CollapseFrom(s, 1))

RECURSIVE ReplaceFrom(_, _, _, _)
ReplaceFrom(s, i, old, new) ==
  IF i > Len(s) THEN ""
  ELSE IF StartsAt(s, i, old)
       THEN new \o ReplaceFrom(s, i + Len(old), old, new)
       ELSE Ch(s, i) \o ReplaceFrom(s, i + 1, old, new)

\* str.replace(old, new), old non-empty
Replace(s0, old, new) == Let(s0, LAMBDA s : ReplaceFrom(s, 1, old, new))

RECURSIVE Find(_, _, _)
\* the first index >= i at which p occurs in s, 0 when there is none
Find(s, p, i) ==
  IF i + Len(p) - 1 > Len(s) THEN 0
  ELSE IF StartsAt(s, i, p) THEN i ELSE Find(s, p, i + 1)

Contains(s, p) == Find(s, p, 1) # 0

\* the length of the match of <a>\s*<b> between word boundaries that starts
\* at i of s, a string whose white space is collapsed; 0 when none does
WordsMatch(s, i, a, b) ==
  LET atB    == i = 1 \/ ~IsWordChar(Ch(s, i - 1))
      Ends(p) == StartsAt(s, i, p) /\ (i + Len(p) > Len(s) \/ ~IsWordChar(Ch(s, i + Len(p))))
  IN IF ~atB THEN 0
     ELSE IF Ends(a \o b) THEN Len(a \o b)
     ELSE IF Ends(a \o " " \o b) THEN Len(a \o " " \o b)
     ELSE 0

RECURSIVE SubWordsFrom(_, _, _, _, _)
SubWordsFrom(s, i, a, b, new) ==
  IF i > Len(s) THEN ""
  ELSE IF WordsMatch(s, i, a, b) # 0
       THEN new \o SubWordsFrom(s, i + WordsMatch(s, i, a, b), a, b, new)
       ELSE Ch(s, i) \o SubWordsFrom(s, i + 1, a, b, new)

\* re.sub(r'\b<a>\s*<b>\b', new, s)
SubWords(s0, a, b, new) == Let(s0, LAMBDA s : SubWordsFrom(s, 1, a, b, new))

(***************************************************************************)
(* normalize_name, normalize_provincia                                     *)
(***************************************************************************)
prefixes == <<"provincia de ", "partido de ", "departamento de ", "departamento ">>

RECURSIVE StripPrefixes(_, _)
\* for prefix in prefixes: if name.startswith(prefix): name = name[len(prefix):]
\* (the loop has no break: every prefix of the list is tried in turn)
StripPrefixes(name0, i) ==
  Let(name0, LAMBDA name :
    IF i > Len(prefixes) THEN name
    ELSE IF StartsWith(name, prefixes[i])
         THEN StripPrefixes(From(name, Len(prefixes[i]) + 1), i + 1)
         ELSE StripPrefixes(name, i + 1))

\* normalize_name on a str
NormalizeStr(x) ==
  LET a == MapChars(x, "ascii")
      b == Strip(MapChars(a, "lower"))
      c == MapChars(b, "punct")
      e == Strip(CollapseWs(c))
  IN StripPrefixes(e, 1)

\* normalize_name(name): name is a str or None
normalize_name(name0) ==
  Let(name0, LAMBDA name : IF ~Truthy(name) THEN "" ELSE NormalizeStr(name.s))

normalize_provincia(name) ==
  LET n0 == normalize_name(name)
      n1 == SubWords(n0, "ant", "arg", "antartida")
      n2 == SubWords(n1, "atl", "sur", "atlantico sur")
      n3 == Replace(n2, "atlsur", "atlantico sur")
  IN Replace(n3, "islas del ", "islas ")

(***************************************************************************)
(* tokenize_normalized                                                     *)
(***************************************************************************)
RECURSIVE WordEnd(_, _)
\* the index at which the word of s that starts at i ends
WordEnd(s, i) == IF i < Len(s) /\ ~IsSpace(Ch(s, i + 1)) THEN WordEnd(s, i + 1) ELSE i

RECURSIVE SplitFrom(_, _)
SplitFrom(s, i0) ==
  Let(SkipSpaces(s, i0), LAMBDA i :
    IF i > Len(s) THEN <<>>
    ELSE Let(WordEnd(s, i), LAMBDA e : <<SubSeq(s, i, e)>> \o SplitFrom(s, e + 1)))

\* str.split(): the words of s, split on runs of white space
Split(s0) == Let(s0, LAMBDA s : SplitFrom(s, 1))

stopwords ==
  {"de", "del", "la", "las", "el", "los", "y",
   "general", "coronel", "mayor", "presidente"}

\* replacements.get(token, token)
replacements(token) ==
  CASE token = "pte" -> "presidente"
    [] token = "presidencia" -> "presidente"
    [] token = "gonzales" -> "gonzalez"
    [] token = "gral" -> "general"
    [] OTHER -> token

\* number_map.get(token, token)
number_map(token) ==
  CASE token = "tres" -> "3"
    [] token = "nueve" -> "9"
    [] token = "veinticinco" -> "25"
    [] OTHER -> token

\* the tokens one word of the name adds to the set
TokensOfWord(w) ==
  Let(number_map(replacements(w)), LAMBDA token :
    IF Len(token) = 1 /\ ~IsDigit(token) THEN {}
    ELSE IF token \in stopwords THEN {}
    ELSE {token} \cup
         (IF StartsWith(token, "la") /\ Len(token) > 2 THEN {From(token, 3)} ELSE {}))

tokenize_normalized(name) ==
  Let(Split(name), LAMBDA ws : UNION {TokensOfWord(ws[i]) : i \in 1..Len(ws)})

(***************************************************************************)
(* CAPITAL_NAME_BY_PROV: .get(prov), "" standing for None                  *)
(***************************************************************************)
CAPITAL_NAME_BY_PROV(prov) ==
  CASE prov = "misiones" -> "posadas"
    [] prov = "catamarca" -> "san fernando del valle de catamarca"
    [] prov = "tucuman" -> "san miguel de tucuman"
    [] prov = "la pampa" -> "santa rosa"
    [] prov = "la rioja" -> "la rioja"
    [] prov = "corrientes" -> "corrientes"
    [] prov = "santa fe" -> "santa fe"
    [] OTHER -> ""

(***************************************************************************)
(* Python dicts: the keys in insertion order and the value of each.        *)
(***************************************************************************)
EmptyDict == [keys |-> <<>>, vals |-> <<>>]

HasKey(dict, k) == \E i \in 1..Len(dict.keys) : dict.keys[i] = k

\* dict.get(k)
DictGet(dict, k) == IF HasKey(dict, k) THEN dict.vals[k] ELSE None

\* dict[k] = v
DictSet(dict0, k, v) ==
  Let(dict0, LAMBDA dict :
    IF HasKey(dict, k)
    THEN [dict EXCEPT !.vals = [x \in DOMAIN dict.vals |-> IF x = k THEN v ELSE dict.vals[x]]]
    ELSE [keys |-> Append(dict.keys, k), vals |-> (k :> v) @@ dict.vals])

(***************************************************************************)
(* parse_html_description                                                  *)
(***************************************************************************)
\* the index after a match of <br\s*/?> (IGNORECASE) that starts at i, 0 when
\* none starts there
BrEnd(s, i) ==
  IF ~(i + 2 <= Len(s) /\ MapChars(SubSeq(s, i, i + 2), "lower") = "<br") THEN 0
  ELSE LET j == SkipSpaces(s, i + 3)
           k == IF j <= Len(s) /\ Ch(s, j) = "/" THEN j + 1 ELSE j
       IN IF k <= Len(s) /\ Ch(s, k) = ">" THEN k + 1 ELSE 0

RECURSIVE NextBr(_, _)
\* the first index >= i of s at which a match of <br\s*/?> starts, 0 when none
NextBr(s, i) ==
  IF i > Len(s) THEN 0 ELSE IF BrEnd(s, i) # 0 THEN i ELSE NextBr(s, i + 1)

RECURSIVE SplitBrFrom(_, _)
\* the chunks of s from index start0 on
SplitBrFrom(s, start0) ==
  Let(<<start0, NextBr(s, start0)>>, LAMBDA t :
    IF t[2] = 0 THEN <<SubSeq(s, t[1], Len(s))>>
    ELSE <<SubSeq(s, t[1], t[2] - 1)>> \o SplitBrFrom(s, BrEnd(s, t[2])))

\* re.split(r'<br\s*/?>', description, flags=re.IGNORECASE)
SplitBr(s0) == Let(s0, LAMBDA s : SplitBrFrom(s, 1))

key_map(key0) ==
  Let(key0, LAMBDA key :
  CASE key = "pais" -> "pais"
    [] key = "provincia" -> "provincia"
    [] key = "povincia" -> "provincia"
    [] key = "total hecta^reas" -> "total_ha"
    [] key = "total hectareas" -> "total_ha"
    [] key = "hecta^reas extranjerizadas" -> "extranjerizada_ha"
    [] key = "hectareas extranjerizadas" -> "extranjerizada_ha"
    [] key = "porcentaje extranjerizacio^n" -> "porcentaje"
    [] key = "porcentaje extranjerizacion" -> "porcentaje"
    [] OTHER -> Replace(key, " ", "_"))

AllDigits(s0) == Let(s0, LAMBDA s : s # "" /\ \A i \in 1..Len(s) : IsDigit(Ch(s, i)))

DigitVal(c) == (CHOOSE i \in 1..Len(Digits) : Ch(Digits, i) = c) - 1

RECURSIVE ToNatUpTo(_, _)
ToNatUpTo(s, k) == IF k = 0 THEN 0 ELSE 10 * ToNatUpTo(s, k - 1) + DigitVal(Ch(s, k))

\* the number a string of decimal digits writes
ToNat(s0) == Let(s0, LAMBDA s : ToNatUpTo(s, Len(s)))

RECURSIVE Pow10(_)
Pow10(k) == IF k = 0 THEN 1 ELSE 10 * Pow10(k - 1)

Sign(s) == IF s # "" /\ Ch(s, 1) = "-" THEN -1 ELSE 1

Unsigned(s) == IF s # "" /\ Ch(s, 1) \in {"+", "-"} THEN From(s, 2) ELSE s

\* int(value): a sign and decimal digits.  None stands for ValueError.
\* (Digit groups joined by "_" are accepted by Python too; no input of the
\* model uses them.)
ParseInt(value) ==
  Let(Unsigned(value), LAMBDA u :
    IF AllDigits(u) THEN PyInt(Sign(value) * ToNat(u)) ELSE None)

\* float(value): a sign, then digits with at most one point, or nan, inf,
\* infinity in any case.  None stands for ValueError.  inf is the float n/0.
\* (Exponents are accepted by Python too; no input of the model uses them.)
ParseFloat(value) ==
  Let(Unsigned(value), LAMBDA u :
    Let(MapChars(u, "lower"), LAMBDA low :
      Let(Find(u, ".", 1), LAMBDA dot :
        LET ip == IF dot = 0 THEN u ELSE SubSeq(u, 1, dot - 1)
            fp == IF dot = 0 THEN "" ELSE From(u, dot + 1)
        IN IF low = "nan" THEN NaN
           ELSE IF low \in {"inf", "infinity"} THEN PyFloat(Sign(value), 0)
           ELSE IF AllDigits(ip \o fp)
                THEN PyFloat(Sign(value) * ToNat(ip \o fp), Pow10(Len(fp)))
                ELSE None)))

\* the value stored for one "key: value" chunk
ParseValue(normalized_key, value) ==
  IF normalized_key \in {"total_ha", "extranjerizada_ha"}
  THEN Let(MapChars(value, "nocomma"), LAMBDA v :
         Let(ParseFloat(v), LAMBDA f : IF f # None THEN f ELSE PyStr(v)))
  ELSE IF normalized_key = "porcentaje"
  THEN Let(ParseInt(value), LAMBDA n :
         IF n # None THEN n
         ELSE Let(ParseFloat(value), LAMBDA f : IF f # None THEN f ELSE PyStr(value)))
  ELSE PyStr(value)

\* the dict after one chunk: skipped when it holds no colon
ParsePart(data, part0) ==
  Let(Strip(part0), LAMBDA part :
    Let(Find(part, ":", 1), LAMBDA colon :
      IF colon = 0 THEN data
      ELSE Let(key_map(MapChars(Strip(SubSeq(part, 1, colon - 1)), "lower")),
               LAMBDA normalized_key :
                 Let(Strip(From(part, colon + 1)), LAMBDA value :
                   DictSet(data, normalized_key, ParseValue(normalized_key, value))))))

RECURSIVE ParseParts(_, _, _)
ParseParts(parts, i, data0) ==
  Let(data0, LAMBDA data :
    IF i > Len(parts) THEN data
    ELSE ParseParts(parts, i + 1, ParsePart(data, parts[i])))

\* parse_html_description(description): description is a str or None
parse_html_description(description0) ==
  Let(description0, LAMBDA description :
    IF ~Truthy(description) THEN EmptyDict
    ELSE Let(SplitBr(description.s), LAMBDA parts : ParseParts(parts, 1, EmptyDict)))

(***************************************************************************)
(* get_nivel                                                               *)
(***************************************************************************)
\* porcentaje >= k for a number; nan compares False with everything
\* a faulty variant: the lower bound of a band excluded
GtNum(v, k) ==
  CASE v.t = "nan" -> FALSE
    [] v.d = 0 -> v.n > 0
    [] OTHER -> v.n > k * v.d

GeNum(v, k) ==
  CASE v.t = "nan" -> FALSE
    [] v.d = 0 -> v.n > 0
    [] OTHER -> v.n >= k * v.d

\* "TypeError" stands for the exception `str >= int` raises
get_nivel(porcentaje0) ==
  Let(porcentaje0, LAMBDA porcentaje :
    IF porcentaje = None THEN "sin_datos"
    ELSE IF ~IsNum(porcentaje) THEN "TypeError"
    ELSE IF GeNum(porcentaje, 10) THEN "alto"
    ELSE IF GeNum(porcentaje, 6) THEN "sobre_promedio"
    ELSE "normal")

(***************************************************************************)
(* Python dicts keyed by str that are only read with .get: functions.      *)
(***************************************************************************)
FnGet(f, k, default) == IF k \in DOMAIN f THEN f[k] ELSE default

FnSet(f, k, v) == (k :> v) @@ f

\* An optional dict (None or a dict): the empty or the one-element sequence.
NoDict == <<>>

Some(dict) == <<dict>>

\* (tierras or {}): every dict the loader stores is non-empty
OrEmpty(opt) == IF opt = NoDict THEN EmptyDict ELSE opt[1]

(***************************************************************************)
(* load_tierras_data                                                       *)
(***************************************************************************)
\* the index at which the run of characters other than "<" and "\n" that
\* starts at i ends (i - 1 when the run is empty)
RECURSIVE RunEnd(_, _)
RunEnd(s, i) ==
  IF i <= Len(s) /\ Ch(s, i) \notin {"<", "\n"} THEN RunEnd(s, i + 1) ELSE i - 1

RECURSIVE SearchProvAt(_, _)
\* re.search(r'(?:Provincia de |^)([^<\n]+)', description) tried from i on:
\* group(1) as a one-element sequence, <<>> when nothing matches
SearchProvAt(s, i) ==
  IF i > Len(s) THEN <<>>
  ELSE LET p == "Provincia de "
           j == i + Len(p)
       IN IF StartsAt(s, i, p) /\ RunEnd(s, j) >= j THEN <<SubSeq(s, j, RunEnd(s, j))>>
          ELSE IF i = 1 /\ RunEnd(s, 1) >= 1 THEN <<SubSeq(s, 1, RunEnd(s, 1))>>
          ELSE SearchProvAt(s, i + 1)

RECURSIVE FirstProvKey(_, _)
\* for key in data: if 'provincia' in key.lower() or key == 'nombre': ... break
FirstProvKey(data, i) ==
  IF i > Len(data.keys) THEN None
  ELSE IF Contains(MapChars(data.keys[i], "lower"), "provincia") \/ data.keys[i] = "nombre"
       THEN data.vals[data.keys[i]]
       ELSE FirstProvKey(data, i + 1)

\* the province name of a row of "Provincias.xlsx" and the dict parsed from
\* it; raised: re.search on a description that is None raises TypeError
ProvNameOfRow(row) ==
  Let(parse_html_description(row.Description), LAMBDA data :
    IF row.Name = PyStr("GP")
    THEN Let(FirstProvKey(data, 1), LAMBDA k :
           IF Truthy(k) THEN [raised |-> FALSE, name |-> k, data |-> data]
           ELSE IF row.Description.t # "str"
                THEN [raised |-> TRUE, name |-> None, data |-> data]
           ELSE Let(SearchProvAt(row.Description.s, 1), LAMBDA m :
                  [raised |-> FALSE,
                   name |-> IF m = <<>> THEN None ELSE PyStr(Strip(m[1])),
                   data |-> data]))
    ELSE [raised |-> FALSE, name |-> row.Name, data |-> data])

\* a faulty variant: a 'nivel' key of the description is kept
StampRecordKeepsNivel(data, nombre_original) ==
  IF HasKey(data, "nivel") THEN DictSet(data, "nombre_original", nombre_original)
  ELSE DictSet(DictSet(data, "nombre_original", nombre_original),
               "nivel", PyStr(get_nivel(DictGet(data, "porcentaje"))))

\* data['nombre_original'] = ..; data['nivel'] = get_nivel(data.get('porcentaje'))
StampRecord(data, nombre_original) ==
  DictSet(DictSet(data, "nombre_original", nombre_original),
          "nivel", PyStr(get_nivel(DictGet(data, "porcentaje"))))

\* one row of "Provincias.xlsx"; acc = [raised, provincias]
LoadProvinciaRow(acc, row) ==
  Let(ProvNameOfRow(row), LAMBDA pn :
    IF pn.raised THEN [acc EXCEPT !.raised = TRUE]
    ELSE IF ~Truthy(pn.name) THEN acc
    ELSE IF get_nivel(DictGet(pn.data, "porcentaje")) = "TypeError"
         THEN [acc EXCEPT !.raised = TRUE]
    ELSE [acc EXCEPT !.provincias =
            FnSet(@, normalize_provincia(pn.name), StampRecord(pn.data, pn.name))])

RECURSIVE LoadProvincias(_, _, _)
\* the loop over "Provincias.xlsx"
LoadProvincias(rows, i, acc0) ==
  Let(acc0, LAMBDA acc :
    IF i > Len(rows) \/ acc.raised THEN acc
    ELSE LoadProvincias(rows, i + 1, LoadProvinciaRow(acc, rows[i])))

\* departamentos_data[key] = data: the later record of a key replaces the earlier
StoreExact(departamentos, key, data) == FnSet(departamentos, key, data)

\* the three indexes after a record: data is the stamped record of the row,
\* n = <<normalized_name, normalized_prov>>
IndexRecord(acc, data, n) ==
  [raised |-> FALSE,
   departamentos |->
     IF n[2] # "" THEN StoreExact(acc.departamentos, n[2] \o "|" \o n[1], data)
     ELSE acc.departamentos,
   departamentos_by_name |->
     FnSet(acc.departamentos_by_name, n[1],
           Append(FnGet(acc.departamentos_by_name, n[1], <<>>), data)),
   departamentos_by_prov |->
     IF n[2] # ""
     THEN FnSet(acc.departamentos_by_prov, n[2],
                Append(FnGet(acc.departamentos_by_prov, n[2], <<>>),
                       [tokens |-> tokenize_normalized(n[1]), data |-> data]))
     ELSE acc.departamentos_by_prov]

\* one row of a department layer;
\* acc = [raised, departamentos, departamentos_by_name, departamentos_by_prov]
LoadLayerRow(acc, row) ==
  Let(parse_html_description(row.Description), LAMBDA parsed :
    IF get_nivel(DictGet(parsed, "porcentaje")) = "TypeError"
    THEN [acc EXCEPT !.raised = TRUE]
    ELSE Let(StampRecord(parsed, row.Name), LAMBDA data :
           Let(<<normalize_name(row.Name), normalize_provincia(DictGet(parsed, "provincia"))>>,
               LAMBDA n : IndexRecord(acc, data, n))))

RECURSIVE LoadLayers(_, _, _)
\* the loop over the rows of the three department layers, in layer order
LoadLayers(rows, i, acc0) ==
  Let(acc0, LAMBDA acc :
    IF i > Len(rows) \/ acc.raised THEN acc
    ELSE LoadLayers(rows, i + 1, LoadLayerRow(acc, rows[i])))

NoTierrasData ==
  [raised |-> FALSE, provincias |-> <<>>, departamentos |-> <<>>,
   departamentos_by_name |-> <<>>, departamentos_by_prov |-> <<>>]

\* load_tierras_data: raised when get_nivel (or re.search) raised
load_tierras_data(prov_rows, layer_rows) ==
  Let(LoadProvincias(prov_rows, 1, [raised |-> FALSE, provincias |-> <<>>]), LAMBDA p :
    IF p.raised THEN [NoTierrasData EXCEPT !.raised = TRUE]
    ELSE Let(LoadLayers(layer_rows, 1,
               [raised |-> FALSE, departamentos |-> <<>>,
                departamentos_by_name |-> <<>>, departamentos_by_prov |-> <<>>]),
             LAMBDA d :
               [raised |-> d.raised, provincias |-> p.provincias,
                departamentos |-> d.departamentos,
                departamentos_by_name |-> d.departamentos_by_name,
                departamentos_by_prov |-> d.departamentos_by_prov]))

(***************************************************************************)
(* build_province_code_map                                                 *)
(***************************************************************************)
RECURSIVE NatToStr(_)
NatToStr(k0) ==
  Let(k0, LAMBDA k :
    IF k < 10 THEN Ch(Digits, k + 1) ELSE NatToStr(k \div 10) \o Ch(Digits, (k % 10) + 1))

\* str(in1) of a str or an int
StrOf(v) ==
  IF v.t = "str" THEN v.s
  ELSE IF v.n < 0 THEN "-" \o NatToStr(-v.n) ELSE NatToStr(v.n)

\* str.zfill(2) of an unsigned string
ZFill2(s0) ==
  Let(s0, LAMBDA s : IF Len(s) = 0 THEN "00" ELSE IF Len(s) = 1 THEN "0" \o s ELSE s)

RECURSIVE BuildCodeMap(_, _, _)
BuildCodeMap(rows, i, code_map0) ==
  Let(code_map0, LAMBDA code_map :
    IF i > Len(rows) THEN code_map
    ELSE IF rows[i].in1 = None THEN BuildCodeMap(rows, i + 1, code_map)
    ELSE BuildCodeMap(rows, i + 1,
           FnSet(code_map, ZFill2(StrOf(rows[i].in1)), Or(rows[i].nam, rows[i].fna))))

build_province_code_map(rows) == BuildCodeMap(rows, 1, <<>>)

(***************************************************************************)
(* gpkg_to_geojson_geometry: the external decoder.  A geometry column is   *)
(* "null", "bad" (the decoder returns None) or "ok" (it returns a mapping).*)
(***************************************************************************)
HasGeometry(geom) == geom = "ok"

(***************************************************************************)
(* process_ign_provincias                                                  *)
(***************************************************************************)
ProvinciaProps(row, fid, provincias_data) ==
  Let(FnGet(provincias_data, normalize_provincia(Or(row.nam, row.fna)), EmptyDict),
      LAMBDA tierras :
     [fid |-> fid,
      nombre |-> Or(row.nam, row.fna),
      nombre_completo |-> row.fna,
      total_ha |-> DictGet(tierras, "total_ha"),
      extranjerizada_ha |-> DictGet(tierras, "extranjerizada_ha"),
      porcentaje |-> DictGet(tierras, "porcentaje"),
      nivel |-> IF HasKey(tierras, "nivel") THEN tierras.vals["nivel"] ELSE PyStr("sin_datos")])

RECURSIVE ProvinciaFeatures(_, _, _)
ProvinciaFeatures(rows, i, provincias_data) ==
  IF i > Len(rows) THEN <<>>
  ELSE (IF HasGeometry(rows[i].geom)
        THEN <<ProvinciaProps(rows[i], i, provincias_data)>> ELSE <<>>)
       \o ProvinciaFeatures(rows, i + 1, provincias_data)

process_ign_provincias(rows, td) == ProvinciaFeatures(rows, 1, td.provincias)

(***************************************************************************)
(* process_ign_departamentos: the names of a row and the four stages of    *)
(* the matching cascade, each from the value of `tierras` before it to the *)
(* value after it.                                                         *)
(***************************************************************************)
\* prov_code = str(in1)[:2] if in1 is not None else None
\* prov_name = province_code_map.get(prov_code) if prov_code else None
ProvNameOf(in1, code_map) ==
  IF in1 = None THEN None
  ELSE Let(StrOf(in1), LAMBDA str :
         Let(SubSeq(str, 1, IF Len(str) < 2 THEN Len(str) ELSE 2), LAMBDA prov_code :
           IF prov_code = "" THEN None ELSE FnGet(code_map, prov_code, None)))

DeptNames(row, code_map) ==
  Let(<<Or(row.nam, row.fna), ProvNameOf(row.in1, code_map)>>, LAMBDA n :
    [dept_name |-> n[1],
     normalized_name |-> normalize_name(n[1]),
     prov_name |-> n[2],
     normalized_prov |-> normalize_provincia(n[2])])

\* tierras_data['departamentos'].get(key)
ExactLookup(td, key) ==
  IF key \in DOMAIN td.departamentos THEN Some(td.departamentos[key]) ELSE NoDict

\* a faulty variant: the exact key index is never consulted
ExactStageSkipped(td, normalized_prov, normalized_name) == NoDict

ExactStage(td, normalized_prov, normalized_name) ==
  IF normalized_prov # ""
  THEN ExactLookup(td, normalized_prov \o "|" \o normalized_name)
  ELSE NoDict

\* a faulty variant: the first record of the name is taken, however many there are
ByNameStageFirst(tierras, td, normalized_prov, normalized_name) ==
  IF tierras = NoDict /\ normalized_prov = ""
       /\ FnGet(td.departamentos_by_name, normalized_name, <<>>) # <<>>
  THEN Some(FnGet(td.departamentos_by_name, normalized_name, <<>>)[1])
  ELSE tierras

ByNameStage(tierras, td, normalized_prov, normalized_name) ==
  IF tierras = NoDict /\ normalized_prov = ""
  THEN Let(FnGet(td.departamentos_by_name, normalized_name, <<>>), LAMBDA matches :
         IF Len(matches) = 1 THEN Some(matches[1]) ELSE tierras)
  ELSE tierras

\* tokens <= ign_tokens or ign_tokens <= tokens
TokenTest(tokens, ign_tokens) == tokens \subseteq ign_tokens \/ ign_tokens \subseteq tokens

\* the list `candidates` the loop over the province's entries builds
Candidates(items, ign_tokens0) ==
  Let(ign_tokens0, LAMBDA ign_tokens :
    LET Passes(item) == TokenTest(item.tokens, ign_tokens)
    IN Let(SelectSeq(items, Passes), LAMBDA kept : [k \in 1..Len(kept) |-> kept[k].data]))

\* a faulty variant: the first candidate is taken, however many there are
PickFirstCandidate(tierras, candidates0) ==
  IF candidates0 # <<>> THEN Some(candidates0[1]) ELSE tierras

\* if len(candidates) == 1: tierras = candidates[0]
PickCandidate(tierras, candidates0) ==
  Let(candidates0, LAMBDA candidates :
    IF Len(candidates) = 1 THEN Some(candidates[1]) ELSE tierras)

FuzzyStage(tierras, td, normalized_prov, normalized_name) ==
  IF tierras = NoDict /\ normalized_prov # ""
  THEN PickCandidate(tierras,
         Candidates(FnGet(td.departamentos_by_prov, normalized_prov, <<>>),
                    tokenize_normalized(normalized_name)))
  ELSE tierras

\* a faulty variant: no capital substitution
CapitalStageOff(tierras, td, normalized_prov, normalized_name) == tierras

CapitalStage(tierras, td, normalized_prov, normalized_name) ==
  IF tierras = NoDict /\ normalized_prov # "" /\ normalized_name \in {"capital", "la capital"}
  THEN LET capital_name == CAPITAL_NAME_BY_PROV(normalized_prov)
       IN IF capital_name # ""
          THEN ExactLookup(td, normalized_prov \o "|" \o capital_name)
          ELSE tierras
  ELSE tierras

DepartamentoProps(row, fid, names, tierras) ==
  [fid |-> fid,
   nombre |-> names.dept_name,
   nombre_completo |-> row.fna,
   codigo |-> row.in1,
   provincia |-> Or(DictGet(OrEmpty(tierras), "provincia"), names.prov_name),
   total_ha |-> DictGet(OrEmpty(tierras), "total_ha"),
   extranjerizada_ha |-> DictGet(OrEmpty(tierras), "extranjerizada_ha"),
   porcentaje |-> DictGet(OrEmpty(tierras), "porcentaje"),
   nivel |-> IF HasKey(OrEmpty(tierras), "nivel") THEN OrEmpty(tierras).vals["nivel"]
             ELSE PyStr("sin_datos")]

(***************************************************************************)
(* process_tierras_points                                                  *)
(***************************************************************************)
PointProps(row, fid) ==
  Let(parse_html_description(row.Description), LAMBDA data :
     [fid |-> fid,
      nombre |-> row.Name,
      provincia |-> DictGet(data, "provincia"),
      total_ha |-> DictGet(data, "total_ha"),
      extranjerizada_ha |-> DictGet(data, "extranjerizada_ha"),
      porcentaje |-> DictGet(data, "porcentaje"),
      nivel |-> PyStr(get_nivel(DictGet(data, "porcentaje")))])

RECURSIVE PointFeatures(_, _)
PointFeatures(rows, i) ==
  IF i > Len(rows) THEN <<>>
  ELSE (IF HasGeometry(rows[i].geom) THEN <<PointProps(rows[i], i)>> ELSE <<>>)
       \o PointFeatures(rows, i + 1)

\* raised: get_nivel raised on a percentage that is a str
process_tierras_points(rows) ==
  Let(PointFeatures(rows, 1), LAMBDA fs :
    [raised |-> \E k \in 1..Len(fs) : fs[k].nivel = PyStr("TypeError"),
     features |-> fs])

(***************************************************************************)
(* generate_stats                                                          *)
(***************************************************************************)
\* props = f['properties'].copy(); del props['fid']
DelFid(props) == [k \in DOMAIN props \ {"fid"} |-> props[k]]

\* x.get('porcentaje', 0) or 0
SortKey(props) == Or(props.porcentaje, PyInt(0))

KeyLess(a, b) == a.n * b.d < b.n * a.d

RECURSIVE InsertDesc(_, _)
\* x placed after the elements whose key is not smaller than its own
InsertDesc(sorted0, x) ==
  Let(sorted0, LAMBDA sorted :
    IF sorted = <<>> THEN <<x>>
    ELSE IF KeyLess(SortKey(Head(sorted)), SortKey(x))
         THEN <<x>> \o sorted
         ELSE <<Head(sorted)>> \o InsertDesc(Tail(sorted), x))

RECURSIVE SortDesc(_, _)
\* list.sort(key=.., reverse=True): stable, descending, on keys that are
\* numbers other than nan
SortDesc(list, k) ==
  IF k = 0 THEN <<>> ELSE InsertDesc(SortDesc(list, k - 1), list[k])

CountNivel(dept_list, nivel) ==
  Cardinality({k \in 1..Len(dept_list) : dept_list[k].nivel = PyStr(nivel)})

\* a faulty variant: every point counted, with data or not
CountAll(dept_list) == Len(dept_list)

\* len([d for d in dept_list if d.get('porcentaje') is not None])
CountWithData(dept_list) ==
  Cardinality({k \in 1..Len(dept_list) : dept_list[k].porcentaje # None})

generate_stats(provs, deptos, pts) ==
  LET WithData(props) == props.porcentaje # None
      plist     == [k \in 1..Len(provs) |-> DelFid(provs[k])]
      unsorted  == [k \in 1..Len(pts) |-> DelFid(pts[k])]
  IN Let(<<SelectSeq(plist, WithData), SortDesc(unsorted, Len(unsorted))>>, LAMBDA t :
     LET kept      == t[1]
         dept_list == t[2]
     IN
     [provincias |-> kept,
      departamentos |-> dept_list,
      summary |->
        [total_departamentos |-> CountWithData(dept_list),
         total_departamentos_ign |-> Len(deptos),
         alto_nivel |-> CountNivel(dept_list, "alto"),
         sobre_promedio |-> CountNivel(dept_list, "sobre_promedio"),
         normal |-> CountNivel(dept_list, "normal"),
         total_provincias |-> Len(kept)]])

(***************************************************************************)
(* The state of a run of main().                                           *)
(***************************************************************************)
VARIABLES
  pc,                 \* the position of main()
  prov_rows,          \* Tierras.gpkg: the rows of "Provincias.xlsx"
  layer_rows,         \* Tierras.gpkg: the rows of the three department layers, in layer order
  ign_prov_rows,      \* ign_provincias.gpkg: the rows of ignprovincia
  ign_dept_rows,      \* ign_departamentos.gpkg: the rows of igndepartamento
  tierras_data,       \* what load_tierras_data returned
  province_code_map,  \* what build_province_code_map returned
  provincias,         \* the properties of the features of process_ign_provincias
  departamentos,      \* the properties of the features of process_ign_departamentos
  points,             \* the properties of the features of process_tierras_points
  stats,              \* what generate_stats returned (<<>> before)
  files,              \* each output file: "prior", "partial" or "written"
  loc,                \* the locals of the loop of process_ign_departamentos
  fn_in,              \* the argument of a function applied on its own
  fn_out              \* the results of a function applied on its own

vars ==
  <<pc, prov_rows, layer_rows, ign_prov_rows, ign_dept_rows, tierras_data,
    province_code_map, provincias, departamentos, points, stats, files, loc,
    fn_in, fn_out>>

inputs == <<prov_rows, layer_rows, ign_prov_rows, ign_dept_rows>>

OutputFiles == <<"provincias.geojson", "departamentos.geojson", "puntos.geojson", "stats.json">>

(***************************************************************************)
(* The rows the model draws its tables from.                               *)
(***************************************************************************)
MaxRows == 2

MaxDepts == 1

MaxPrefixes == 2

MaxPct == 12

SeqsUpTo(S, n) == UNION {[1..k -> S] : k \in 0..n}

LayerRow(name, description, geom) ==
  [Name |-> PyStr(name), Description |-> PyStr(description), geom |-> geom]

\* the rows the runs of main() draw the department layers from: the
\* percentages of every band, a float, a record without percentage that
\* carries its own "Nivel" key, a point without geometry, a percentage that
\* is no number
LayerRowCands ==
  {LayerRow("Posadas", "Provincia: Misiones<br>Porcentaje Extranjerizacio^n: 12", "ok"),
   LayerRow("Co^rdoba", "Provincia: Co^rdoba<br>Total Hecta^reas: 1,200.5<br>Porcentaje Extranjerizacio^n: 9.99", "ok"),
   LayerRow("San Martin", "Pais: Argentina<br>Provincia: Misiones<br>Porcentaje Extranjerizacion: 6", "ok"),
   LayerRow("Gral. San Martin", "Povincia: Misiones<BR/>Nivel: alto", "ok"),
   LayerRow("San Martin", "Provincia: Co^rdoba<br>Porcentaje Extranjerizacion: 5.99", "bad"),
   LayerRow("San Pedro", "Provincia: Misiones<br>Porcentaje Extranjerizacion: N/D", "ok")}

\* the rows the matching cascade is exercised on: every department layer
\* row above whose percentage is a number or absent
MatchRowCands ==
  {r \in LayerRowCands : ~load_tierras_data(<<>>, <<r>>).raised}

IgnRow(nam, fna, in1, geom) ==
  [nam |-> nam, fna |-> PyStr(fna), in1 |-> in1, geom |-> geom]

IgnDeptCands ==
  {IgnRow(PyStr("Capital"), "Departamento Capital", PyStr("54028"), "ok"),
   IgnRow(PyStr("Capital"), "Departamento Capital", PyStr("14014"), "ok"),
   IgnRow(None, "Departamento de San Marti^n", PyStr("54112"), "ok"),
   IgnRow(PyStr("Libertador Gral. San Marti^n"), "Departamento Libertador General San Marti^n",
          PyStr("54063"), "ok"),
   IgnRow(PyStr("San Marti^n"), "Departamento San Marti^n", None, "ok"),
   IgnRow(PyStr("La"), "La", PyStr("54999"), "ok")}

\* the tables of igndepartamento of the runs of main()
IgnDeptTables ==
  {<<IgnRow(PyStr("Capital"), "Departamento Capital", PyStr("54028"), "ok"),
     IgnRow(PyStr("San Pedro"), "Departamento San Pedro", PyStr("54105"), "null"),
     IgnRow(PyStr("Libertador Gral. San Marti^n"), "Departamento Libertador General San Marti^n",
            PyStr("54063"), "ok")>>,
   <<IgnRow(PyStr("San Marti^n"), "Departamento San Marti^n", None, "ok")>>}

\* the two worlds of province tables: ignprovincia and "Provincias.xlsx"
World1 ==
  [ign |-> <<IgnRow(PyStr("Misiones"), "Provincia de Misiones", PyStr("54"), "ok"),
             IgnRow(PyStr("Co^rdoba"), "Provincia de Co^rdoba", PyStr("14"), "ok")>>,
   xlsx |-> <<[Name |-> PyStr("Misiones"),
               Description |-> PyStr("Total Hectareas: 2,980,100<br>Porcentaje Extranjerizacion: 13")],
              [Name |-> PyStr("GP"),
               Description |-> PyStr("Provincia de Co^rdoba<br>Hectareas Extranjerizadas: x")]>>]

World2 ==
  [ign |-> <<IgnRow(PyStr("Misiones"), "Provincia de Misiones", PyStr("54"), "ok"),
             IgnRow(None, "Provincia de Co^rdoba", PyStr("14"), "ok"),
             IgnRow(PyStr("Chaco"), "Provincia del Chaco", None, "bad")>>,
   xlsx |-> <<[Name |-> PyStr("Chaco"), Description |-> None],
              [Name |-> PyStr("Misiones"), Description |-> PyStr("Nivel: normal")]>>]

Worlds == {World1, World2}

NoLoc ==
  [i |-> 0, dept_name |-> None, normalized_name |-> "", prov_name |-> None,
   normalized_prov |-> "", tierras |-> NoDict]

\* everything main() has not computed yet
Fresh ==
  /\ tierras_data = NoTierrasData
  /\ province_code_map = <<>>
  /\ provincias = <<>>
  /\ departamentos = <<>>
  /\ points = <<>>
  /\ stats = <<>>
  /\ files = [f \in 1..Len(OutputFiles) |-> "prior"]
  /\ loc = NoLoc

Init ==
  /\ pc = "start"
  /\ \E w \in Worlds : prov_rows = w.xlsx /\ ign_prov_rows = w.ign
  /\ layer_rows \in SeqsUpTo(LayerRowCands, MaxRows)
  /\ ign_dept_rows \in IgnDeptTables
  /\ Fresh
  /\ fn_in = None
  /\ fn_out = <<>>

(***************************************************************************)
(* main()                                                                  *)
(***************************************************************************)
\* import shapely: available, or main() prints and returns
ImportShapely ==
  /\ pc = "start"
  /\ pc' \in {"load", "returned"}
  /\ UNCHANGED <<inputs, tierras_data, province_code_map, provincias, departamentos,
                 points, stats, files, loc, fn_in, fn_out>>

\* a cursor.execute of one of the five querying steps raises (a table is
\* missing): the finally clause closes the connections and the run ends
QueryFails ==
  /\ pc \in {"load", "codemap", "provs", "deptos", "points"}
  /\ pc' = "failed"
  /\ UNCHANGED <<inputs, tierras_data, province_code_map, provincias, departamentos,
                 points, stats, files, loc, fn_in, fn_out>>

LoadTierras ==
  /\ pc = "load"
  /\ tierras_data' = load_tierras_data(prov_rows, layer_rows)
  /\ pc' = IF tierras_data'.raised THEN "failed" ELSE "codemap"
  /\ UNCHANGED <<inputs, province_code_map, provincias, departamentos, points, stats,
                 files, loc, fn_in, fn_out>>

BuildProvinceCodeMap ==
  /\ pc = "codemap"
  /\ province_code_map' = build_province_code_map(ign_prov_rows)
  /\ pc' = "provs"
  /\ UNCHANGED <<inputs, tierras_data, provincias, departamentos, points, stats, files,
                 loc, fn_in, fn_out>>

ProcessIgnProvincias ==
  /\ pc = "provs"
  /\ provincias' = process_ign_provincias(ign_prov_rows, tierras_data)
  /\ pc' = "deptos"
  /\ UNCHANGED <<inputs, tierras_data, province_code_map, departamentos, points, stats,
                 files, loc, fn_in, fn_out>>

\* process_ign_departamentos: the query, then the loop over its rows
DeptQuery ==
  /\ pc = "deptos"
  /\ loc' = [NoLoc EXCEPT !.i = 1]
  /\ pc' = "d_row"
  /\ UNCHANGED <<inputs, tierras_data, province_code_map, provincias, departamentos,
                 points, stats, files, fn_in, fn_out>>

\* the head of the loop: the function returns after the last row, a row
\* without geometry is skipped, the names of any other row are computed
DeptRow ==
  /\ pc = "d_row"
  /\ IF loc.i > Len(ign_dept_rows)
     THEN pc' = "points" /\ loc' = loc
     ELSE IF ~HasGeometry(ign_dept_rows[loc.i].geom)
     THEN pc' = "d_row" /\ loc' = [NoLoc EXCEPT !.i = loc.i + 1]
     ELSE LET names == DeptNames(ign_dept_rows[loc.i], province_code_map)
          IN /\ pc' = "d_exact"
             /\ loc' = [i |-> loc.i, dept_name |-> names.dept_name,
                        normalized_name |-> names.normalized_name,
                        prov_name |-> names.prov_name,
                        normalized_prov |-> names.normalized_prov, tierras |-> NoDict]
  /\ UNCHANGED <<inputs, tierras_data, province_code_map, provincias, departamentos,
                 points, stats, files, fn_in, fn_out>>

DeptExact ==
  /\ pc = "d_exact"
  /\ loc' = [loc EXCEPT !.tierras = ExactStage(tierras_data, loc.normalized_prov, loc.normalized_name)]
  /\ pc' = "d_byname"
  /\ UNCHANGED <<inputs, tierras_data, province_code_map, provincias, departamentos,
                 points, stats, files, fn_in, fn_out>>

DeptByName ==
  /\ pc = "d_byname"
  /\ loc' = [loc EXCEPT !.tierras =
               ByNameStage(loc.tierras, tierras_data, loc.normalized_prov, loc.normalized_name)]
  /\ pc' = "d_fuzzy"
  /\ UNCHANGED <<inputs, tierras_data, province_code_map, provincias, departamentos,
                 points, stats, files, fn_in, fn_out>>

DeptFuzzy ==
  /\ pc = "d_fuzzy"
  /\ loc' = [loc EXCEPT !.tierras =
               FuzzyStage(loc.tierras, tierras_data, loc.normalized_prov, loc.normalized_name)]
  /\ pc' = "d_capital"
  /\ UNCHANGED <<inputs, tierras_data, province_code_map, provincias, departamentos,
                 points, stats, files, fn_in, fn_out>>

DeptCapital ==
  /\ pc = "d_capital"
  /\ loc' = [loc EXCEPT !.tierras =
               CapitalStage(loc.tierras, tierras_data, loc.normalized_prov, loc.normalized_name)]
  /\ pc' = "d_emit"
  /\ UNCHANGED <<inputs, tierras_data, province_code_map, provincias, departamentos,
                 points, stats, files, fn_in, fn_out>>

DeptEmit ==
  /\ pc = "d_emit"
  /\ departamentos' =
       Append(departamentos,
              DepartamentoProps(ign_dept_rows[loc.i], loc.i,
                                [dept_name |-> loc.dept_name, prov_name |-> loc.prov_name],
                                loc.tierras))
  /\ loc' = [NoLoc EXCEPT !.i = loc.i + 1]
  /\ pc' = "d_row"
  /\ UNCHANGED <<inputs, tierras_data, province_code_map, provincias, points, stats,
                 files, fn_in, fn_out>>

ProcessTierrasPoints ==
  /\ pc = "points"
  /\ LET r == process_tierras_points(layer_rows)
     IN /\ points' = IF r.raised THEN points ELSE r.features
        /\ pc' = IF r.raised THEN "failed" ELSE "stats"
  /\ UNCHANGED <<inputs, tierras_data, province_code_map, provincias, departamentos,
                 stats, files, loc, fn_in, fn_out>>

GenerateStats ==
  /\ pc = "stats"
  /\ stats' = <<generate_stats(provincias, departamentos, points)>>
  /\ pc' = "write1"
  /\ UNCHANGED <<inputs, tierras_data, province_code_map, provincias, departamentos,
                 points, files, loc, fn_in, fn_out>>

WritePc == <<"write1", "write2", "write3", "write4">>

\* with open(.., 'w') as f: json.dump(.., f) of the k-th output file: both
\* succeed; or open raises (OSError) and the file is as it was; or open has
\* truncated the file and json.dump raises, leaving a partial file
WriteFile(k) ==
  /\ pc = WritePc[k]
  /\ \/ /\ files' = [files EXCEPT ![k] = "written"]
        /\ pc' = IF k = Len(OutputFiles) THEN "done" ELSE WritePc[k + 1]
     \/ /\ files' = files
        /\ pc' = "failed"
     \/ /\ files' = [files EXCEPT ![k] = "partial"]
        /\ pc' = "failed"
  /\ UNCHANGED <<inputs, tierras_data, province_code_map, provincias, departamentos,
                 points, stats, loc, fn_in, fn_out>>

Next ==
  \/ ImportShapely
  \/ QueryFails
  \/ LoadTierras
  \/ BuildProvinceCodeMap
  \/ ProcessIgnProvincias
  \/ DeptQuery
  \/ DeptRow
  \/ DeptExact
  \/ DeptByName
  \/ DeptFuzzy
  \/ DeptCapital
  \/ DeptEmit
  \/ ProcessTierrasPoints
  \/ GenerateStats
  \/ \E k \in 1..Len(OutputFiles) : WriteFile(k)

Spec == Init /\ [][Next]_vars

(***************************************************************************)
(* The index builder and the matching cascade on their own: every table of *)
(* department rows against every table of department boundaries.           *)
(***************************************************************************)
InitMatch ==
  /\ pc = "start"
  /\ prov_rows = World1.xlsx
  /\ ign_prov_rows = World1.ign
  /\ layer_rows \in SeqsUpTo(MatchRowCands, MaxRows)
  /\ ign_dept_rows \in SeqsUpTo(IgnDeptCands, MaxDepts)
  /\ Fresh
  /\ fn_in = None
  /\ fn_out = <<>>

NextMatch ==
  \/ ImportShapely
  \/ LoadTierras
  \/ BuildProvinceCodeMap
  \/ ProcessIgnProvincias
  \/ DeptQuery
  \/ DeptRow
  \/ DeptExact
  \/ DeptByName
  \/ DeptFuzzy
  \/ DeptCapital
  \/ DeptEmit

SpecMatch == InitMatch /\ [][NextMatch]_vars

(***************************************************************************)
(* normalize_name applied to a name, then to its own result.               *)
(***************************************************************************)
PrefixForms ==
  {"Provincia de ", "Partido de ", "Departamento de ", "Departamento ", "DEPARTAMENTO.  DE "}

BaseNames == {"X", "Ri^o Segundo.", " La Capital ", "de", ""}

RECURSIVE Concat(_, _)
Concat(seq, k) == IF k = 0 THEN "" ELSE Concat(seq, k - 1) \o seq[k]

\* up to MaxPrefixes administrative prefixes in a row, then a base name
NameInputs ==
  {Concat(ps, Len(ps)) \o b : ps \in SeqsUpTo(PrefixForms, MaxPrefixes), b \in BaseNames}

Idle ==
  /\ prov_rows = <<>>
  /\ layer_rows = <<>>
  /\ ign_prov_rows = <<>>
  /\ ign_dept_rows = <<>>
  /\ Fresh

InitNorm ==
  /\ pc = "normalize"
  /\ fn_in \in {PyStr(x) : x \in NameInputs} \cup {None}
  /\ fn_out = <<>>
  /\ Idle

\* normalize_name(x), then normalize_name of the result
Normalize ==
  /\ pc = "normalize"
  /\ Len(fn_out) < 2
  /\ fn_out' = Append(fn_out, normalize_name(IF fn_out = <<>> THEN fn_in ELSE PyStr(fn_out[1])))
  /\ UNCHANGED <<pc, inputs, tierras_data, province_code_map, provincias, departamentos,
                 points, stats, files, loc, fn_in>>

SpecNorm == InitNorm /\ [][Normalize]_vars

(***************************************************************************)
(* get_nivel applied to None, to the integer and the two-decimal           *)
(* percentages of -MaxPct..MaxPct, to nan and to the infinities.           *)
(***************************************************************************)
PctInputs ==
  {None, NaN, PyFloat(1, 0), PyFloat(-1, 0)}
    \cup {PyInt(k) : k \in -MaxPct..MaxPct}
    \cup {PyFloat(k, 100) : k \in -(100 * MaxPct)..(100 * MaxPct)}

InitNivel ==
  /\ pc = "classify"
  /\ fn_in \in PctInputs
  /\ fn_out = <<>>
  /\ Idle

Classify ==
  /\ pc = "classify"
  /\ fn_out = <<>>
  /\ fn_out' = <<get_nivel(fn_in)>>
  /\ UNCHANGED <<pc, inputs, tierras_data, province_code_map, provincias, departamentos,
                 points, stats, files, loc, fn_in>>

SpecNivel == InitNivel /\ [][Classify]_vars

(***************************************************************************)
(* The province code map and the resolution of a department's province on  *)
(* their own: codes stored as text and codes stored as integers, no        *)
(* statistical rows.                                                       *)
(***************************************************************************)
ProvCodeCands ==
  {IgnRow(PyStr("Buenos Aires"), "Provincia de Buenos Aires", PyInt(6), "ok"),
   IgnRow(PyStr("Buenos Aires"), "Provincia de Buenos Aires", PyStr("06"), "ok"),
   IgnRow(PyStr("Salta"), "Provincia de Salta", PyInt(66), "ok"),
   IgnRow(PyStr("Misiones"), "Provincia de Misiones", PyStr("54"), "ok"),
   IgnRow(PyStr("Chaco"), "Provincia del Chaco", None, "ok")}

DeptCodeCands ==
  {IgnRow(PyStr("Arrecifes"), "Partido de Arrecifes", PyInt(6049), "ok"),
   IgnRow(PyStr("Pergamino"), "Partido de Pergamino", PyInt(6623), "ok"),
   IgnRow(PyStr("Arrecifes"), "Partido de Arrecifes", PyStr("06049"), "ok"),
   IgnRow(PyStr("Capital"), "Departamento Capital", PyStr("54028"), "ok"),
   IgnRow(PyStr("Capital"), "Departamento Capital", PyInt(66028), "ok"),
   IgnRow(PyStr("Islas"), "Islas", None, "ok")}

InitCode ==
  /\ pc = "start"
  /\ prov_rows = <<>>
  /\ layer_rows = <<>>
  /\ ign_prov_rows \in SeqsUpTo(ProvCodeCands, MaxRows)
  /\ ign_dept_rows \in SeqsUpTo(DeptCodeCands, MaxDepts)
  /\ Fresh
  /\ fn_in = None
  /\ fn_out = <<>>

SpecCode == InitCode /\ [][NextMatch]_vars

(***************************************************************************)
(* The properties.                                                         *)
(***************************************************************************)
\* the statistical fields of feature f are those of record rec
Attached(f, prov_name, rec) ==
  /\ f.total_ha = DictGet(rec, "total_ha")
  /\ f.extranjerizada_ha = DictGet(rec, "extranjerizada_ha")
  /\ f.porcentaje = DictGet(rec, "porcentaje")
  /\ f.nivel = rec.vals["nivel"]
  /\ f.provincia = Or(DictGet(rec, "provincia"), prov_name)

\* feature f carries no record
Unmatched(f) ==
  /\ f.total_ha = None
  /\ f.extranjerizada_ha = None
  /\ f.porcentaje = None
  /\ f.nivel = PyStr("sin_datos")

\* the names process_ign_departamentos computed for the row of feature f
NamesOf(f) == DeptNames(ign_dept_rows[f.fid], province_code_map)

\* the entries of the token index of a province that pass the subset test
\* against the token set T
Passing(prov, T) ==
  LET list == FnGet(tierras_data.departamentos_by_prov, prov, <<>>)
  IN {k \in 1..Len(list) : list[k].tokens \subseteq T \/ T \subseteq list[k].tokens}

\* C1: a department whose province resolves and whose key
\* 'normalized_province|normalized_name' is in the exact key index gets the
\* record stored under that key, whatever the token index, the by-name index
\* and the capital table hold.
C1_ExactKeyWins ==
  /\ pc = "d_emit" =>
       LET key == loc.normalized_prov \o "|" \o loc.normalized_name
       IN (loc.normalized_prov # "" /\ key \in DOMAIN tierras_data.departamentos)
            => loc.tierras = <<tierras_data.departamentos[key]>>
  /\ \A k \in 1..Len(departamentos) :
       LET f == departamentos[k]
           names == NamesOf(f)
           key == names.normalized_prov \o "|" \o names.normalized_name
       IN (names.normalized_prov # "" /\ key \in DOMAIN tierras_data.departamentos)
            => Attached(f, names.prov_name, tierras_data.departamentos[key])

\* the exact key is present while another record of the province passes the
\* token test too
C1_Witness ==
  /\ pc = "d_emit"
  /\ loc.normalized_prov # ""
  /\ LET key == loc.normalized_prov \o "|" \o loc.normalized_name
         list == FnGet(tierras_data.departamentos_by_prov, loc.normalized_prov, <<>>)
     IN /\ key \in DOMAIN tierras_data.departamentos
        /\ loc.tierras = <<tierras_data.departamentos[key]>>
        /\ \E k \in Passing(loc.normalized_prov, tokenize_normalized(loc.normalized_name)) :
             list[k].data # tierras_data.departamentos[key]

\* C2: a department whose province is not resolved gets a record only if its
\* normalized name maps to exactly one record of the by-name index; with no
\* record or with two or more it is emitted unmatched, and no later stage
\* attaches one.
C2_ByNameOnlyIfUnique ==
  /\ (pc \in {"d_fuzzy", "d_capital", "d_emit"} /\ loc.normalized_prov = "") =>
       LET matches == FnGet(tierras_data.departamentos_by_name, loc.normalized_name, <<>>)
       IN loc.tierras = IF Len(matches) = 1 THEN <<matches[1]>> ELSE NoDict
  /\ \A k \in 1..Len(departamentos) :
       LET f == departamentos[k]
           names == NamesOf(f)
           matches == FnGet(tierras_data.departamentos_by_name, names.normalized_name, <<>>)
       IN names.normalized_prov = "" =>
            IF Len(matches) = 1 THEN Attached(f, names.prov_name, matches[1])
            ELSE Unmatched(f) /\ f.provincia = None

\* a feature of unresolved province whose name is that of two records of
\* two provinces
C2_Witness ==
  \E k \in 1..Len(departamentos) :
    LET f == departamentos[k]
        names == NamesOf(f)
        matches == FnGet(tierras_data.departamentos_by_name, names.normalized_name, <<>>)
    IN /\ names.normalized_prov = ""
       /\ Len(matches) = 2
       /\ DictGet(matches[1], "provincia") # DictGet(matches[2], "provincia")
       /\ Unmatched(f)

\* C3: after the fuzzy stage of a department whose province resolves and
\* whose exact key is missing, a record is attached iff exactly one entry of
\* the province's token list is a subset or a superset of the department's
\* tokens, and then it is that entry's record.
C3_FuzzyIffExactlyOne ==
  (pc = "d_capital" /\ loc.normalized_prov # ""
     /\ (loc.normalized_prov \o "|" \o loc.normalized_name)
          \notin DOMAIN tierras_data.departamentos) =>
    LET list == FnGet(tierras_data.departamentos_by_prov, loc.normalized_prov, <<>>)
        passing == Passing(loc.normalized_prov, tokenize_normalized(loc.normalized_name))
    IN IF Cardinality(passing) = 1
       THEN \E k \in passing : loc.tierras = <<list[k].data>>
       ELSE loc.tierras = NoDict

\* the department's token set is empty, two entries pass, nothing is attached
C3_Witness ==
  /\ pc = "d_capital"
  /\ loc.normalized_prov # ""
  /\ (loc.normalized_prov \o "|" \o loc.normalized_name) \notin DOMAIN tierras_data.departamentos
  /\ tokenize_normalized(loc.normalized_name) = {}
  /\ Cardinality(Passing(loc.normalized_prov, {})) = 2
  /\ loc.tierras = NoDict

\* the capital city of a province, as CAPITAL_NAME_BY_PROV lists it
TableCity(prov) ==
  CASE prov = "misiones" -> "posadas"
    [] prov = "catamarca" -> "san fernando del valle de catamarca"
    [] prov = "tucuman" -> "san miguel de tucuman"
    [] prov = "la pampa" -> "santa rosa"
    [] prov = "la rioja" -> "la rioja"
    [] prov = "corrientes" -> "corrientes"
    [] prov = "santa fe" -> "santa fe"
    [] OTHER -> ""

\* the capital stage about to run on a department named 'capital' or
\* 'la capital' of a resolved province, nothing attached so far
CapitalCase ==
  /\ pc = "d_capital"
  /\ loc.tierras = NoDict
  /\ loc.normalized_prov # ""
  /\ loc.normalized_name \in {"capital", "la capital"}

\* C4 (amended): for the seven provinces of CAPITAL_NAME_BY_PROV the capital
\* stage attaches the record stored under 'province|capital city' when it is
\* present; for any other province, Co'rdoba among them, it attaches nothing.
C4_CapitalOfListedProvince ==
  [][CapitalCase =>
       LET key == loc.normalized_prov \o "|" \o TableCity(loc.normalized_prov)
       IN loc'.tierras =
            IF TableCity(loc.normalized_prov) # "" /\ key \in DOMAIN tierras_data.departamentos
            THEN <<tierras_data.departamentos[key]>>
            ELSE NoDict]_vars

\* 'Capital' of Misiones has got the record of Posadas
C4_Witness ==
  /\ pc = "d_emit"
  /\ loc.normalized_name = "capital"
  /\ loc.normalized_prov = "misiones"
  /\ "misiones|capital" \notin DOMAIN tierras_data.departamentos
  /\ "misiones|posadas" \in DOMAIN tierras_data.departamentos
  /\ loc.tierras = <<tierras_data.departamentos["misiones|posadas"]>>

\* C4 as stated: the capital stage attaches the record of the province's
\* capital city whenever it is present, for Co'rdoba the one under
\* 'cordoba|cordoba'.
C4_CapitalOfEveryProvince ==
  [][CapitalCase =>
       LET city == IF loc.normalized_prov = "cordoba" THEN "cordoba"
                   ELSE TableCity(loc.normalized_prov)
           key == loc.normalized_prov \o "|" \o city
       IN (city # "" /\ key \in DOMAIN tierras_data.departamentos)
            => loc'.tierras = <<tierras_data.departamentos[key]>>]_vars
Niveles == {PyStr("alto"), PyStr("sobre_promedio"), PyStr("normal"), PyStr("sin_datos")}

\* the features emitted so far by the three feature builders
EmittedFeatures ==
  {provincias[k] : k \in 1..Len(provincias)}
    \cup {departamentos[k] : k \in 1..Len(departamentos)}
    \cup {points[k] : k \in 1..Len(points)}

\* C5: every emitted feature of the three builders has a nivel among alto,
\* sobre_promedio, normal and sin_datos, and its nivel is sin_datos iff its
\* porcentaje is None, matched or not.
C5_NivelOfEveryFeature ==
  \A f \in EmittedFeatures :
    /\ f.nivel \in Niveles
    /\ f.nivel = PyStr("sin_datos") <=> f.porcentaje = None

\* a department feature matched to a record without percentage whose
\* description carried a 'Nivel' key, next to a point of level alto
C5_Witness ==
  /\ \E k \in 1..Len(departamentos) :
       LET f == departamentos[k]
           names == NamesOf(f)
           list == FnGet(tierras_data.departamentos_by_prov, names.normalized_prov, <<>>)
           passing == Passing(names.normalized_prov, tokenize_normalized(names.normalized_name))
       IN /\ (names.normalized_prov \o "|" \o names.normalized_name)
               \notin DOMAIN tierras_data.departamentos
          /\ Cardinality(passing) = 1
          /\ \A j \in passing : ~HasKey(list[j].data, "porcentaje")
          /\ f.porcentaje = None
          /\ f.nivel = PyStr("sin_datos")
  /\ \E i \in 1..Len(layer_rows) :
       DictGet(parse_html_description(layer_rows[i].Description), "nivel") = PyStr("alto")
  /\ \E f \in EmittedFeatures : f.nivel = PyStr("alto")

\* the percentage parse_html_description returns for a row
PctOfRow(row) == DictGet(parse_html_description(row.Description), "porcentaje")

\* C6 as stated: a row whose percentage is no number does not fail the run:
\* load_tierras_data returns, and the row's point is classified sin_datos.
C6_UnparseablePctIsNoData ==
  \A i \in 1..Len(layer_rows) :
    PctOfRow(layer_rows[i]).t = "str" =>
      /\ ~tierras_data.raised
      /\ \A k \in 1..Len(points) :
           points[k].fid = i => points[k].nivel = PyStr("sin_datos")

\* C7: get_nivel returns sin_datos for None, alto for p >= 10,
\* sobre_promedio for 6 <= p < 10 and normal for p < 6, for every integer
\* and every rational percentage and for the infinities.
C7_Bands ==
  (pc = "classify" /\ fn_out # <<>> /\ fn_in # NaN) =>
    fn_out[1] =
      CASE fn_in = None -> "sin_datos"
        [] fn_in # None /\ fn_in.d = 0 -> IF fn_in.n > 0 THEN "alto" ELSE "normal"
        [] fn_in # None /\ fn_in.d # 0 /\ fn_in.n >= 10 * fn_in.d -> "alto"
        [] fn_in # None /\ fn_in.d # 0 /\ fn_in.n < 10 * fn_in.d /\ fn_in.n >= 6 * fn_in.d
             -> "sobre_promedio"
        [] OTHER -> "normal"

\* get_nivel(10) has returned alto
C7_Witness == pc = "classify" /\ fn_in = PyInt(10) /\ fn_out = <<"alto">>

\* C8: in the summary of generate_stats alto_nivel + sobre_promedio + normal
\* is total_departamentos, the number of points whose porcentaje is not
\* None; points of level sin_datos are in none of the four numbers.
C8_SummaryCountsAddUp ==
  stats # <<>> =>
    LET summary == stats[1].summary
        with_data == {k \in 1..Len(points) : points[k].porcentaje # None}
        sin_datos == {k \in 1..Len(points) : points[k].nivel = PyStr("sin_datos")}
    IN /\ summary.alto_nivel + summary.sobre_promedio + summary.normal
            = summary.total_departamentos
       /\ summary.total_departamentos = Cardinality(with_data)
       /\ summary.total_departamentos = Len(points) - Cardinality(sin_datos)

\* a summary over a point of level sin_datos and a point with data
C8_Witness ==
  /\ stats # <<>>
  /\ Len(points) = 2
  /\ \E k \in 1..Len(points) : points[k].nivel = PyStr("sin_datos")
  /\ stats[1].summary.total_departamentos = 1

\* C9 as stated: normalize_name(normalize_name(x)) = normalize_name(x).
C9_Idempotent ==
  (pc = "normalize" /\ Len(fn_out) = 2) => fn_out[2] = fn_out[1]

AllFiles(status) == \A k \in 1..Len(OutputFiles) : files[k] = status

\* C10 as stated: no output file is touched before statistics generation
\* has completed, a failure before that leaves the four files as they were,
\* and no run ends with only some of the four files rewritten.
C10_AllOrNothing ==
  /\ ~AllFiles("prior") => stats # <<>>
  /\ pc \in {"returned", "failed", "done"} => AllFiles("prior") \/ AllFiles("written")
\* str.zfill(5): a department code has five digits
ZFill5(s) == IF Len(s) >= 5 THEN s ELSE SubSeq("00000", 1, 5 - Len(s)) \o s

\* the province code a department code encodes: its first two digits once
\* zero-padded
EncodedProvCode(in1) == SubSeq(ZFill5(StrOf(in1)), 1, 2)

\* C11 as stated: a department's province is the name the code map holds
\* for the first two digits of its zero-padded code (None when the map has
\* none), also for a code stored as an integer without its leading zero,
\* and never the name of another province.
C11_ProvinceOfPaddedCode ==
  /\ (pc \in {"d_exact", "d_byname", "d_fuzzy", "d_capital", "d_emit"}
        /\ ign_dept_rows[loc.i].in1 # None) =>
       loc.prov_name =
         FnGet(province_code_map, EncodedProvCode(ign_dept_rows[loc.i].in1), None)
  /\ \A k \in 1..Len(departamentos) :
       LET f == departamentos[k]
       IN (f.codigo # None /\ Unmatched(f)) =>
            f.provincia = FnGet(province_code_map, EncodedProvCode(f.codigo), None)
====
